---- MODULE Spec2Model ----
(***************************************************************************)
(* rslogic: persistent binary-tree map (btmap.rs), logical states          *)
(* (state.rs) and goals (goal.rs), with T an atomic primitive (unif_prim!).*)
(*                                                                         *)
(* Rc<Node> cells live in two append-only heaps (one per node type); a     *)
(* pointer is a heap index and 0 is Option::None.  Option<X> values are    *)
(* sequences: <<>> is None and <<x>> is Some(x).                           *)
(***************************************************************************)
EXTENDS Integers, Sequences, FiniteSets, TLC

\* ---- bounds ----
\* most variables a client makes
MaxVars == 3
\* values of T are 1..MaxVal
MaxVal == 2
\* most Rc<Node> cells in either heap of a state
MaxNodes == 3
\* most variables and most bindings cells of a state a goal is evaluated against
GoalVars == 2
GoalNodes == 1
\* most fresh variables of a state a composed goal (a conjunction or
\* disjunction of compound goals) is evaluated against
AlgVars == 1
\* keys of the stand-alone map are 0..MaxKey
MaxKey == 2
\* most inserts into the stand-alone map
MaxInserts == 4

Values == 1..MaxVal
Keys == 0..MaxKey

\* bnodes, snodes : the Rc<Node> cells of the bindings / slots maps the client holds
\* cur            : the State the client holds (its `s`)
\* call, res      : the last call and what it returned (or that it aborted)
\* rb, rs         : the heaps right after the last call, results included
\* pre, pobs      : the State the last call was made on, and what get and
\*                  binds_var returned on it before the call
\* m, mnodes      : a BtMap used on its own, and its cells
\* hist, mlast    : the successful inserts into m, and the last insert
\* aliased        : the pairs <<a, b>> for which unify_var(a, b) returned a
\*                  state in the ancestry of cur
VARIABLES bnodes, snodes, cur, call, res, rb, rs, pre, pobs, m, mnodes, hist, mlast,
          aliased

vars == <<bnodes, snodes, cur, call, res, rb, rs, pre, pobs, m, mnodes, hist, mlast,
          aliased>>

\* ---------------------------------------------------------------------
\* btmap.rs
\* ---------------------------------------------------------------------

\* struct Node { key, val, left, right }
Node(key, val, left, right) ==
    [key |-> key, val |-> val, left |-> left, right |-> right]

RECURSIVE Node_get(_, _, _)
\* Node::get: compare with this node, descend left or right, else None
Node_get(heap, n, key) ==
    IF key = heap[n].key THEN <<heap[n].val>>
    ELSE IF key < heap[n].key
         THEN IF heap[n].left # 0 THEN Node_get(heap, heap[n].left, key) ELSE <<>>
         ELSE IF heap[n].right # 0 THEN Node_get(heap, heap[n].right, key) ELSE <<>>

\* BtMap::empty
BtMap_empty == [size |-> 0, root |-> 0]

\* BtMap::_len
BtMap_len(map) == map.size

\* BtMap::get
BtMap_get(heap, map, key) ==
    IF map.root # 0 THEN Node_get(heap, map.root, key) ELSE <<>>

\* BtMap::contains_key
BtMap_contains_key(heap, map, key) == BtMap_get(heap, map, key) # <<>>

\* a destructive insert: the old root cell is overwritten with the new entry
\* and its old contents move to a fresh cell
BtMap_insert_inplace(heap, map, key, item) ==
    IF map.root # 0
    THEN IF key = heap[map.root].key
         THEN [ok |-> FALSE, map |-> map, heap |-> heap]
         ELSE [ok |-> TRUE,
               map |-> [size |-> map.size + 1, root |-> map.root],
               heap |-> Append([heap EXCEPT ![map.root] =
                                  IF key < heap[map.root].key
                                  THEN Node(key, item, 0, Len(heap) + 1)
                                  ELSE Node(key, item, Len(heap) + 1, 0)],
                               heap[map.root])]
    ELSE [ok |-> TRUE,
          map |-> [size |-> 1, root |-> Len(heap) + 1],
          heap |-> Append(heap, Node(key, item, 0, 0))]

\* BtMap::insert: Err when key equals the ROOT key; otherwise a new root
\* cell whose right (key less) or left (key greater) child is the old root
BtMap_insert(heap, map, key, item) ==
    IF map.root # 0
    THEN IF key = heap[map.root].key
         THEN [ok |-> FALSE, map |-> map, heap |-> heap]
         ELSE IF key < heap[map.root].key
              THEN [ok |-> TRUE,
                    map |-> [size |-> map.size + 1, root |-> Len(heap) + 1],
                    heap |-> Append(heap, Node(key, item, 0, map.root))]
              ELSE [ok |-> TRUE,
                    map |-> [size |-> map.size + 1, root |-> Len(heap) + 1],
                    heap |-> Append(heap, Node(key, item, map.root, 0))]
    ELSE [ok |-> TRUE,
          map |-> [size |-> 1, root |-> Len(heap) + 1],
          heap |-> Append(heap, Node(key, item, 0, 0))]

\* ---------------------------------------------------------------------
\* state.rs
\* ---------------------------------------------------------------------

\* a returned PossibleStates together with the heaps after the call
Ret(states, b, s) == [panic |-> FALSE, states |-> states, b |-> b, s |-> s]

\* Result::unwrap on Err(()): the call aborts and returns nothing
Panic(b, s) == [panic |-> TRUE, states |-> <<>>, b |-> b, s |-> s]

\* State::empty
State_empty == [bindings |-> BtMap_empty, slots |-> BtMap_empty, next_index |-> 0]

\* State::binds_var
State_binds_var(b, s, st, var) ==
    LET bg == BtMap_get(b, st.bindings, var)
    IN  IF bg # <<>> THEN BtMap_contains_key(s, st.slots, bg[1]) ELSE FALSE

\* State::get
State_get(b, s, st, var) ==
    LET bg == BtMap_get(b, st.bindings, var)
    IN  IF bg # <<>> THEN BtMap_get(s, st.slots, bg[1]) ELSE <<>>

\* a unify that forgets to compare the two values
Unif_unify_always(self, other, prev) == <<prev>>

\* unif_prim!: Unif::unify for a primitive T
Unif_unify(self, other, prev) == IF self = other THEN <<prev>> ELSE <<>>

\* unify_val that bumps next_index in the state it builds
State_unify_val_bump(b, s, st, var, val) ==
    LET bg == BtMap_get(b, st.bindings, var)
    IN  IF bg # <<>>
        THEN LET sg == BtMap_get(s, st.slots, bg[1])
             IN  IF sg # <<>>
                 THEN Ret(Unif_unify(sg[1], val, st), b, s)
                 ELSE LET r == BtMap_insert(s, st.slots, bg[1], val)
                      IN  IF r.ok
                          THEN Ret(<<[st EXCEPT !.slots = r.map,
                                                !.next_index = @ + 1]>>, b, r.heap)
                          ELSE Panic(b, s)
        ELSE LET r1 == BtMap_insert(b, st.bindings, var, var)
             IN  IF ~r1.ok THEN Panic(b, s)
                 ELSE LET r2 == BtMap_insert(s, st.slots, var, val)
                      IN  IF ~r2.ok THEN Panic(r1.heap, s)
                          ELSE Ret(<<[bindings |-> r1.map, slots |-> r2.map,
                                      next_index |-> st.next_index + 1]>>,
                                   r1.heap, r2.heap)

\* unify_val that stores the value of an aliased variable under the
\* variable's index instead of its slot
State_unify_val_wrongslot(b, s, st, var, val) ==
    LET bg == BtMap_get(b, st.bindings, var)
    IN  IF bg # <<>>
        THEN LET sg == BtMap_get(s, st.slots, bg[1])
             IN  IF sg # <<>>
                 THEN Ret(Unif_unify(sg[1], val, st), b, s)
                 ELSE LET r == BtMap_insert(s, st.slots, var, val)
                      IN  IF r.ok
                          THEN Ret(<<[st EXCEPT !.slots = r.map]>>, b, r.heap)
                          ELSE Panic(b, s)
        ELSE LET r1 == BtMap_insert(b, st.bindings, var, var)
             IN  IF ~r1.ok THEN Panic(b, s)
                 ELSE LET r2 == BtMap_insert(s, st.slots, var, val)
                      IN  IF ~r2.ok THEN Panic(r1.heap, s)
                          ELSE Ret(<<[bindings |-> r1.map, slots |-> r2.map,
                                      next_index |-> st.next_index]>>,
                                   r1.heap, r2.heap)

\* State::unify_val
State_unify_val(b, s, st, var, val) ==
    LET bg == BtMap_get(b, st.bindings, var)
    IN  IF bg # <<>>
        THEN LET sg == BtMap_get(s, st.slots, bg[1])
             IN  IF sg # <<>>
                 THEN Ret(Unif_unify(sg[1], val, st), b, s)
                 ELSE LET r == BtMap_insert(s, st.slots, bg[1], val)
                      IN  IF r.ok
                          THEN Ret(<<[st EXCEPT !.slots = r.map]>>, b, r.heap)
                          ELSE Panic(b, s)
        ELSE LET r1 == BtMap_insert(b, st.bindings, var, var)
             IN  IF ~r1.ok THEN Panic(b, s)
                 ELSE LET r2 == BtMap_insert(s, st.slots, var, val)
                      IN  IF ~r2.ok THEN Panic(r1.heap, s)
                          ELSE Ret(<<[bindings |-> r1.map, slots |-> r2.map,
                                      next_index |-> st.next_index]>>,
                                   r1.heap, r2.heap)

\* State::unify_var
State_unify_var(b, s, st, v1, v2) ==
    LET b1 == BtMap_get(b, st.bindings, v1)
        b2 == BtMap_get(b, st.bindings, v2)
    IN  IF b1 # <<>>
        THEN IF b2 # <<>>
             THEN LET value1 == BtMap_get(s, st.slots, b1[1])
                      value2 == BtMap_get(s, st.slots, b2[1])
                  IN  IF value1 # <<>>
                      THEN IF value2 # <<>>
                           THEN Ret(Unif_unify(value1[1], value2[1], st), b, s)
                           ELSE Ret(<<>>, b, s)
                      ELSE IF value2 # <<>>
                           THEN Ret(<<>>, b, s)
                           ELSE IF b1[1] = b2[1] THEN Ret(<<st>>, b, s)
                                ELSE Ret(<<>>, b, s)
             ELSE LET r == BtMap_insert(b, st.bindings, v2, b1[1])
                  IN  IF r.ok THEN Ret(<<[st EXCEPT !.bindings = r.map]>>, r.heap, s)
                      ELSE Panic(b, s)
        ELSE IF b2 # <<>>
             THEN LET r == BtMap_insert(b, st.bindings, v1, b2[1])
                  IN  IF r.ok THEN Ret(<<[st EXCEPT !.bindings = r.map]>>, r.heap, s)
                      ELSE Panic(b, s)
             ELSE LET r1 == BtMap_insert(b, st.bindings, v1, v1)
                  IN  IF ~r1.ok THEN Panic(b, s)
                      ELSE LET r2 == BtMap_insert(r1.heap, r1.map, v2, v1)
                           IN  IF r2.ok
                               THEN Ret(<<[st EXCEPT !.bindings = r2.map]>>, r2.heap, s)
                               ELSE Panic(r1.heap, s)

\* make_var that hands out next_index without advancing it
State_make_var_stale(st) == [var |-> st.next_index, state |-> st]

\* State::make_var: (Var, State)
State_make_var(st) ==
    [var |-> st.next_index,
     state |-> [bindings |-> st.bindings, slots |-> st.slots,
                next_index |-> st.next_index + 1]]

\* ---------------------------------------------------------------------
\* goal.rs
\* A goal is a tuple whose first element is its kind:
\*   <<"fail",0,0>>  <<"unify_val",var,val>>  <<"unify_var",v1,v2>>
\*   <<"pred",var,val>>  <<"conj",a,b>>  <<"disj",a,b>>
\* ---------------------------------------------------------------------

fail == <<"fail", 0, 0>>
unify_val(var, val) == <<"unify_val", var, val>>
unify_vars(v1, v2) == <<"unify_var", v1, v2>>
conj(a, b) == <<"conj", a, b>>
disj(a, b) == <<"disj", a, b>>
\* pred(&f) with the closure of tests::test_pred,
\*   f = |s| match s.get(&var) { Some(n) => *n == val, None => false }
pred(var, val) == <<"pred", var, val>>

\* Fail::eval
Fail_eval(b, s, st) == Ret(<<>>, b, s)

\* a predicate goal that keeps the states its function rejects
Predicate_eval_negated(g, b, s, st) ==
    IF State_get(b, s, st, g[2]) # <<g[3]>> THEN Ret(<<st>>, b, s) ELSE Ret(<<>>, b, s)

\* Predicate::eval
Predicate_eval(g, b, s, st) ==
    IF State_get(b, s, st, g[2]) = <<g[3]>> THEN Ret(<<st>>, b, s) ELSE Ret(<<>>, b, s)

\* a loop that drains the first iterator before the second
Disj_loop_concat(da, db, i, result) == result \o da \o db

\* a loop that breaks as soon as either iterator is exhausted
Disj_loop_zip(da, db, i, result) ==
    LET n == IF Len(da) < Len(db) THEN Len(da) ELSE Len(db)
    IN  result \o [k \in 1..(2 * n) |->
                     IF k % 2 = 1 THEN da[(k + 1) \div 2] ELSE db[k \div 2]]

RECURSIVE Disj_loop(_, _, _, _)
\* the loop of Disjunction::eval: one item of da, then one of db, until
\* neither iterator yields
Disj_loop(da, db, i, result) ==
    LET r1 == IF i <= Len(da) THEN Append(result, da[i]) ELSE result
        r2 == IF i <= Len(db) THEN Append(r1, db[i]) ELSE r1
        found == i <= Len(da) \/ i <= Len(db)
    IN  IF ~found THEN result ELSE Disj_loop(da, db, i + 1, r2)

RECURSIVE Goal_eval(_, _, _, _)
RECURSIVE Conj_loop(_, _, _, _)

\* a conjunction that evaluates b against the input state once per result
\* of a, instead of against each result
Conjunction_eval_input(g, b, s, st) ==
    LET ra == Goal_eval(g[2], b, s, st)
    IN  IF ra.panic THEN ra
        ELSE Conj_loop(g[3], [i \in 1..Len(ra.states) |-> st], 1,
                       Ret(<<>>, ra.b, ra.s))

\* Conjunction::eval.  An abort inside a sub-goal aborts the evaluation.
Conjunction_eval(g, b, s, st) ==
    LET ra == Goal_eval(g[2], b, s, st)
    IN  IF ra.panic THEN ra
        ELSE Conj_loop(g[3], ra.states, 1, Ret(<<>>, ra.b, ra.s))

\* Disjunction::eval: both sub-goals are evaluated against the input state
Disjunction_eval(g, b, s, st) ==
    LET da == Goal_eval(g[2], b, s, st)
    IN  IF da.panic THEN da
        ELSE LET db == Goal_eval(g[3], da.b, da.s, st)
             IN  IF db.panic THEN db
                 ELSE Ret(Disj_loop(da.states, db.states, 1, <<>>), db.b, db.s)

\* Goal::eval, dispatched on the goal's kind
Goal_eval(g, b, s, st) ==
    CASE g[1] = "fail" -> Fail_eval(b, s, st)
      [] g[1] = "unify_val" -> State_unify_val(b, s, st, g[2], g[3])
      [] g[1] = "unify_var" -> State_unify_var(b, s, st, g[2], g[3])
      [] g[1] = "pred" -> Predicate_eval(g, b, s, st)
      [] g[1] = "conj" -> Conjunction_eval(g, b, s, st)
      [] g[1] = "disj" -> Disjunction_eval(g, b, s, st)

\* a loop that puts the results of each evaluation of b in front of the
\* results so far
Conj_loop_prepend(gb, ra, i, acc) ==
    IF i > Len(ra) THEN acc
    ELSE LET r == Goal_eval(gb, acc.b, acc.s, ra[i])
         IN  IF r.panic THEN Panic(r.b, r.s)
             ELSE Conj_loop(gb, ra, i + 1, Ret(r.states \o acc.states, r.b, r.s))

\* for s in ra { let mut rb = self.b.eval(&s); result.append(&mut rb); }
Conj_loop(gb, ra, i, acc) ==
    IF i > Len(ra) THEN acc
    ELSE LET r == Goal_eval(gb, acc.b, acc.s, ra[i])
         IN  IF r.panic THEN Panic(r.b, r.s)
             ELSE Conj_loop(gb, ra, i + 1, Ret(acc.states \o r.states, r.b, r.s))

\* ---------------------------------------------------------------------
\* the client: a chain  let s = s.op(..)  starting from State::empty()
\* ---------------------------------------------------------------------

\* variables made in the ancestry of st
InContract(st) == 0..(st.next_index - 1)

\* what a client can observe of st: get and binds_var of every variable
Obs(b, s, st) ==
    [v \in 0..(MaxVars - 1) |->
        <<State_get(b, s, st, v), State_binds_var(b, s, st, v)>>]

\* the heaps, the state and the result after a call that returned or aborted
Returned(r) ==
    /\ pre' = cur
    /\ pobs' = Obs(bnodes, snodes, cur)
    /\ res' = [panic |-> r.panic, states |-> r.states]
    /\ rb' = r.b
    /\ rs' = r.s
    /\ bnodes' = r.b
    /\ snodes' = r.s
    /\ cur' = IF r.states # <<>> THEN r.states[1] ELSE cur

\* the results of an evaluation are inspected and dropped: the client keeps s
Inspected(r) ==
    /\ pre' = cur
    /\ pobs' = Obs(bnodes, snodes, cur)
    /\ res' = [panic |-> r.panic, states |-> r.states]
    /\ rb' = r.b
    /\ rs' = r.s
    /\ UNCHANGED <<bnodes, snodes, cur>>

\* an inspected evaluation is the end of a run: its results are dropped, and
\* whatever the client does next with s it also does in the run without it
HoldsState == call[1] # "eval"

\* the process has not aborted and the heaps have room
Live(maxn) ==
    /\ ~res.panic
    /\ HoldsState
    /\ Len(bnodes) < maxn
    /\ Len(snodes) < maxn

\* let (v, s) = s.make_var();
MakeVar(maxv, maxn) ==
    /\ Live(maxn)
    /\ cur.next_index < maxv
    /\ call' = <<"make_var", State_make_var(cur).var, 0>>
    /\ Returned(Ret(<<State_make_var(cur).state>>, bnodes, snodes))
    /\ UNCHANGED <<m, mnodes, hist, mlast, aliased>>

\* let r = s.unify_val(&v, x); s = r[0] when there is one
UnifyVal(maxn) ==
    /\ Live(maxn)
    /\ \E v \in InContract(cur), x \in Values :
          /\ call' = <<"unify_val", v, x>>
          /\ Returned(State_unify_val(bnodes, snodes, cur, v, x))
    /\ UNCHANGED <<m, mnodes, hist, mlast, aliased>>

\* let r = s.unify_var(&v1, &v2); s = r[0] when there is one.  The pair is
\* recorded in aliased when track is set.
UnifyVar(maxn, track) ==
    /\ Live(maxn)
    /\ \E v1 \in InContract(cur), v2 \in InContract(cur) :
          /\ call' = <<"unify_var", v1, v2>>
          /\ Returned(State_unify_var(bnodes, snodes, cur, v1, v2))
          /\ aliased' = IF track /\ State_unify_var(bnodes, snodes, cur, v1, v2).states # <<>>
                        THEN aliased \cup {<<v1, v2>>}
                        ELSE aliased
    /\ UNCHANGED <<m, mnodes, hist, mlast>>

\* the atomic goals over the variables made so far
UnifyAtoms(st) ==
    {unify_val(v, x) : v \in InContract(st), x \in Values}
      \cup {unify_vars(v1, v2) : v1 \in InContract(st), v2 \in InContract(st)}

Atoms(st) ==
    UnifyAtoms(st) \cup {fail} \cup {pred(v, x) : v \in InContract(st), x \in Values}

\* let results = g.eval(&s);  g an atom or conj / disj of two atoms
EvalGoal ==
    /\ ~res.panic
    /\ HoldsState
    /\ \E a1 \in Atoms(cur), a2 \in Atoms(cur), shape \in {"atom", "conj", "disj"} :
          LET g == CASE shape = "atom" -> a1
                     [] shape = "conj" -> conj(a1, a2)
                     [] shape = "disj" -> disj(a1, a2)
          IN  /\ shape = "atom" => a2 = a1
              /\ call' = <<"eval", g, 0>>
              /\ Inspected(Goal_eval(g, bnodes, snodes, cur))
    /\ UNCHANGED <<m, mnodes, hist, mlast, aliased>>

\* let results = g.eval(&s);  g a conjunction, in either nesting, of up to
\* three unify_val / unify_vars goals
EvalConj ==
    /\ ~res.panic
    /\ HoldsState
    /\ \E a1 \in UnifyAtoms(cur), a2 \in UnifyAtoms(cur), a3 \in UnifyAtoms(cur),
          shape \in {"one", "two", "left", "right"} :
          LET g == CASE shape = "one" -> a1
                     [] shape = "two" -> conj(a1, a2)
                     [] shape = "left" -> conj(conj(a1, a2), a3)
                     [] shape = "right" -> conj(a1, conj(a2, a3))
          IN  /\ shape = "one" => (a2 = a1 /\ a3 = a1)
              /\ shape = "two" => a3 = a1
              /\ call' = <<"eval", g, 0>>
              /\ Inspected(Goal_eval(g, bnodes, snodes, cur))
    /\ UNCHANGED <<m, mnodes, hist, mlast, aliased>>

\* unify_val goals over the variables made so far, and fail
ValAtoms(st) ==
    {unify_val(v, x) : v \in InContract(st), x \in Values} \cup {fail}

\* let results = disj(A, B).eval(&s);  A of up to two and B of up to three
\* alternatives
EvalDisjunction ==
    /\ ~res.panic
    /\ HoldsState
    /\ \E sa \in {"one", "two"}, sb \in {"one", "two", "three"} :
       \E a1 \in ValAtoms(cur) :
       \E a2 \in IF sa = "one" THEN {a1} ELSE ValAtoms(cur) :
       \E b1 \in ValAtoms(cur) :
       \E b2 \in IF sb = "one" THEN {b1} ELSE ValAtoms(cur) :
       \E b3 \in IF sb = "three" THEN ValAtoms(cur) ELSE {b1} :
          LET A == IF sa = "one" THEN a1 ELSE disj(a1, a2)
              B == CASE sb = "one" -> b1
                     [] sb = "two" -> disj(b1, b2)
                     [] sb = "three" -> disj(disj(b1, b2), b3)
          IN  /\ call' = <<"eval", disj(A, B), 0>>
              /\ Inspected(Goal_eval(disj(A, B), bnodes, snodes, cur))
    /\ UNCHANGED <<m, mnodes, hist, mlast, aliased>>

\* let results = conj(A, B).eval(&s);  A an atom or two alternatives, B an
\* atom or a conjunction or disjunction of two atoms
EvalConjunction ==
    /\ ~res.panic
    /\ HoldsState
    /\ \E sa \in {"one", "two"}, sb \in {"atom", "conj", "disj"} :
       \E a1 \in IF sa = "one" THEN Atoms(cur) ELSE ValAtoms(cur) :
       \E a2 \in IF sa = "one" THEN {a1} ELSE ValAtoms(cur) :
       \E b1 \in Atoms(cur) :
       \E b2 \in IF sb = "atom" THEN {b1} ELSE Atoms(cur) :
          LET A == IF sa = "one" THEN a1 ELSE disj(a1, a2)
              B == CASE sb = "atom" -> b1
                     [] sb = "conj" -> conj(b1, b2)
                     [] sb = "disj" -> disj(b1, b2)
          IN  /\ call' = <<"eval", conj(A, B), 0>>
              /\ Inspected(Goal_eval(conj(A, B), bnodes, snodes, cur))
    /\ UNCHANGED <<m, mnodes, hist, mlast, aliased>>

\* let m = m.insert(k, v) when Ok, on a map of its own
MapInsert ==
    /\ Len(hist) < MaxInserts
    /\ \E k \in Keys, v \in Values :
          LET r == BtMap_insert(mnodes, m, k, v)
          IN  /\ mlast' = [key |-> k, ok |-> r.ok,
                           present |-> \E i \in 1..Len(hist) : hist[i][1] = k]
              /\ m' = r.map
              /\ mnodes' = r.heap
              /\ hist' = IF r.ok THEN Append(hist, <<k, v>>) ELSE hist
    /\ UNCHANGED <<bnodes, snodes, cur, call, res, rb, rs, pre, pobs, aliased>>

Init ==
    /\ bnodes = <<>>
    /\ snodes = <<>>
    /\ cur = State_empty
    /\ call = <<"empty", 0, 0>>
    /\ res = [panic |-> FALSE, states |-> <<State_empty>>]
    /\ rb = <<>>
    /\ rs = <<>>
    /\ pre = State_empty
    /\ pobs = Obs(<<>>, <<>>, State_empty)
    /\ m = BtMap_empty
    /\ mnodes = <<>>
    /\ hist = <<>>
    /\ mlast = [key |-> 0, ok |-> TRUE, present |-> FALSE]
    /\ aliased = {}

\* the state operations
Next ==
    \/ MakeVar(MaxVars, MaxNodes)
    \/ UnifyVal(MaxNodes)
    \/ UnifyVar(MaxNodes, FALSE)

Spec == Init /\ [][Next]_vars

\* the state operations, with the unified pairs of variables recorded
NextAlias ==
    \/ MakeVar(MaxVars, MaxNodes)
    \/ UnifyVal(MaxNodes)
    \/ UnifyVar(MaxNodes, TRUE)

SpecAlias == Init /\ [][NextAlias]_vars

\* goals evaluated against the states of a short chain
NextGoal ==
    \/ MakeVar(GoalVars, GoalNodes)
    \/ UnifyVal(GoalNodes)
    \/ UnifyVar(GoalNodes, FALSE)
    \/ EvalGoal

SpecGoal == Init /\ [][NextGoal]_vars

\* conjunctions of unifications evaluated against fresh variables
NextConj ==
    \/ MakeVar(MaxVars, MaxNodes)
    \/ EvalConj

SpecConj == Init /\ [][NextConj]_vars

\* composed goals evaluated against fresh variables
NextAlg ==
    \/ MakeVar(AlgVars, MaxNodes)
    \/ EvalDisjunction
    \/ EvalConjunction

SpecAlg == Init /\ [][NextAlg]_vars

\* the map alone
NextMap == MapInsert

SpecMap == Init /\ [][NextMap]_vars

\* ---------------------------------------------------------------------
\* properties
\* ---------------------------------------------------------------------

\* the last call returned (did not abort) exactly one state
ReturnedOne(op) == call[1] = op /\ ~res.panic /\ Len(res.states) = 1

RECURSIVE IsValConj(_)
\* g is a conjunction, in any nesting, of unify_val goals
IsValConj(g) ==
    \/ g[1] = "unify_val"
    \/ g[1] = "conj" /\ IsValConj(g[2]) /\ IsValConj(g[3])

RECURSIVE Conjuncts(_)
\* the <<variable, value>> pairs such a conjunction states
Conjuncts(g) ==
    IF g[1] = "conj" THEN Conjuncts(g[2]) \o Conjuncts(g[3]) ELSE << <<g[2], g[3]>> >>

RECURSIVE Holds(_, _)
\* the assignment f of values to variables satisfies every equality of g
Holds(g, f) ==
    CASE g[1] = "unify_val" -> f[g[2]] = g[3]
      [] g[1] = "unify_var" -> f[g[2]] = f[g[3]]
      [] g[1] = "conj" -> Holds(g[2], f) /\ Holds(g[3], f)

Satisfiable(g, n) == \E f \in [0..(n - 1) -> Values] : Holds(g, f)

\* C1: every state returned by a conjunction of unify_val(v_i, x_i) goals
\* satisfies every conjunct: get(v_i) = Some(x_i).
C1_Soundness ==
    (call[1] = "eval" /\ IsValConj(call[2])) =>
        \A i \in 1..Len(res.states) :
            \A j \in 1..Len(Conjuncts(call[2])) :
                State_get(rb, rs, res.states[i], Conjuncts(call[2])[j][1])
                    = <<Conjuncts(call[2])[j][2]>>

\* C2: a conjunction of unify_var / unify_val goals evaluated against fresh
\* variables never returns the empty sequence when some assignment of values
\* satisfies all its equalities.
C2_Completeness ==
    (/\ call[1] = "eval"
     /\ ~res.panic
     /\ bnodes = <<>>
     /\ Satisfiable(call[2], cur.next_index)) => res.states # <<>>

\* C3: after unify_var(a, b) returned [S1], whenever S1.unify_val(a, x) or
\* S1.unify_val(b, x) returns [S2], S2.get(a) = S2.get(b) = Some(x).
C3_AliasBinding ==
    ReturnedOne("unify_var") =>
        \A w \in {call[2], call[3]}, x \in Values :
            LET r == State_unify_val(bnodes, snodes, cur, w, x)
            IN  (~r.panic /\ Len(r.states) = 1) =>
                    /\ State_get(r.b, r.s, r.states[1], call[2]) = <<x>>
                    /\ State_get(r.b, r.s, r.states[1], call[3]) = <<x>>

\* C4: when unify_val(v, x) returns exactly one state S1, S1.get(v) = Some(x)
\* and S1.binds_var(v).
C4_UnifyValBinds ==
    ReturnedOne("unify_val") =>
        /\ State_get(rb, rs, res.states[1], call[2]) = <<call[3]>>
        /\ State_binds_var(rb, rs, res.states[1], call[2])

\* a unify_val that bound a variable already aliased to another one
C4_Witness ==
    /\ ReturnedOne("unify_val")
    /\ Len(bnodes) >= 2
    /\ BtMap_get(bnodes, cur.bindings, call[2]) # <<call[2]>>
    /\ State_get(rb, rs, res.states[1], call[2]) = <<call[3]>>

DistinctKeys(h) == \A i, j \in 1..Len(h) : i # j => h[i][1] # h[j][1]

\* C6: after successful inserts of pairwise distinct keys the map is the
\* abstract finite map: get / contains_key of every inserted pair, None /
\* false for every other key, _len the number of inserts.
C6_MapLookup ==
    DistinctKeys(hist) =>
        /\ \A i \in 1..Len(hist) :
              /\ BtMap_get(mnodes, m, hist[i][1]) = <<hist[i][2]>>
              /\ BtMap_contains_key(mnodes, m, hist[i][1])
        /\ \A k \in Keys :
              (\A i \in 1..Len(hist) : hist[i][1] # k) =>
                  /\ BtMap_get(mnodes, m, k) = <<>>
                  /\ ~BtMap_contains_key(mnodes, m, k)
        /\ BtMap_len(m) = Len(hist)

\* C7: insert(k, v) is an error whenever k is already in the map and succeeds
\* only when k is absent; no map holds two entries for one key.
C7_InsertRejectsPresent ==
    /\ mlast.present => ~mlast.ok
    /\ ~mlast.present => mlast.ok
    /\ DistinctKeys(hist)

\* C8: no in-contract make_var / unify_val / unify_var call aborts on an
\* insert collision.
C8_NoAbort == ~res.panic

\* after the last call, get / binds_var of the state it was made on return
\* what they returned before it
CallPersists == Obs(rb, rs, pre) = pobs

\* disj(unify_val(a, x), unify_val(a, y)), x # y, on a variable a that get
\* reports unbound yields two states, get(a) = x then get(a) = y, and leaves
\* the input state as it was
DisjBranches ==
    \A a \in InContract(cur), x \in Values, y \in Values :
        (x # y /\ State_get(bnodes, snodes, cur, a) = <<>>) =>
            LET r == Goal_eval(disj(unify_val(a, x), unify_val(a, y)),
                               bnodes, snodes, cur)
            IN  /\ ~r.panic
                /\ Len(r.states) = 2
                /\ State_get(r.b, r.s, r.states[1], a) = <<x>>
                /\ State_get(r.b, r.s, r.states[2], a) = <<y>>
                /\ Obs(r.b, r.s, cur) = Obs(bnodes, snodes, cur)

\* C9: after a call, get / binds_var of the state it was made on return what
\* they returned before it, and the two branches of a disjunction on an
\* unbound variable yield their own bindings.
C9_Persistence ==
    /\ CallPersists
    /\ DisjBranches

\* C10: every state a goal returns has the next_index of the state it was
\* evaluated against.
C10_GoalsMakeNoVars ==
    call[1] = "eval" =>
        \A i \in 1..Len(res.states) : res.states[i].next_index = cur.next_index

\* a disjunction that returned two states
C10_Witness ==
    /\ call[1] = "eval"
    /\ call[2][1] = "disj"
    /\ Len(res.states) = 2
    /\ cur.next_index >= 2

\* what a client can observe of a returned state
View(b, s, st) == <<Obs(b, s, st), st.next_index>>

\* the views of the states of a result, in order
Views(r) == [i \in 1..Len(r.states) |-> View(r.b, r.s, r.states[i])]

\* the views of the states the last call returned
ResViews == [i \in 1..Len(res.states) |-> View(rb, rs, res.states[i])]

RECURSIVE Interleave(_, _)
\* [a0, b0, a1, b1, ...] for the first min(m, n) pairs, then the remaining
\* items of the longer sequence
Interleave(a, b) ==
    IF a = <<>> THEN b
    ELSE IF b = <<>> THEN a
    ELSE <<a[1], b[1]>> \o Interleave(Tail(a), Tail(b))

\* C11: when A.eval(s) = [a0..a(m-1)] and B.eval(s) = [b0..b(n-1)],
\* disj(A, B).eval(s) is a0, b0, a1, b1, ... for the first min(m, n) pairs
\* followed by the rest of the longer sequence, m + n states in all.
C11_DisjInterleaves ==
    (call[1] = "eval" /\ call[2][1] = "disj") =>
        LET da == Goal_eval(call[2][2], bnodes, snodes, cur)
            db == Goal_eval(call[2][3], bnodes, snodes, cur)
        IN  (~da.panic /\ ~db.panic) =>
                /\ ~res.panic
                /\ ResViews = Interleave(Views(da), Views(db))
                /\ Len(res.states) = Len(da.states) + Len(db.states)

\* a disjunction of a goal with two results and a goal with three
C11_Witness ==
    /\ call[1] = "eval"
    /\ call[2][1] = "disj"
    /\ Len(Goal_eval(call[2][2], bnodes, snodes, cur).states) = 2
    /\ Len(Goal_eval(call[2][3], bnodes, snodes, cur).states) = 3
    /\ Len(res.states) = 5
    /\ ResViews[2] # ResViews[3]

\* C12: conj(fail, g).eval(s) and conj(g, fail).eval(s) are both the empty
\* sequence, for every goal g and every state s.
C12_FailAnnihilates ==
    (/\ call[1] = "eval"
     /\ call[2][1] = "conj"
     /\ (call[2][2][1] = "fail" \/ call[2][3][1] = "fail")) =>
        (~res.panic /\ res.states = <<>>)

\* C13: disj(fail, g).eval(s) and disj(g, fail).eval(s) both equal g.eval(s)
\* as sequences (and abort exactly when g.eval(s) aborts).
C13_FailIsDisjIdentity ==
    (/\ call[1] = "eval"
     /\ call[2][1] = "disj"
     /\ (call[2][2][1] = "fail" \/ call[2][3][1] = "fail")) =>
        LET g == IF call[2][2][1] = "fail" THEN call[2][3] ELSE call[2][2]
            rg == Goal_eval(g, bnodes, snodes, cur)
        IN  /\ res.panic = rg.panic
            /\ res.states = rg.states
            /\ ResViews = Views(rg)

\* disj(fail, g) for a goal g that returned three states
C13_Witness ==
    /\ call[1] = "eval"
    /\ call[2][1] = "disj"
    /\ call[2][2][1] = "fail"
    /\ Len(res.states) = 3
    /\ ResViews[1] # ResViews[2]

\* C14: once unify_var(a, b) has returned a state S1, in S1 and in every
\* state derived from it by successful make_var / unify_val / unify_var
\* calls, binds_var(a) = binds_var(b) and get(a) = get(b).
C14_AliasesAgree ==
    \A p \in aliased :
        /\ State_binds_var(bnodes, snodes, cur, p[1])
              = State_binds_var(bnodes, snodes, cur, p[2])
        /\ State_get(bnodes, snodes, cur, p[1]) = State_get(bnodes, snodes, cur, p[2])

RECURSIVE Node_keys(_, _)
\* the keys of the cells reachable from cell n
Node_keys(heap, n) ==
    IF n = 0 THEN {}
    ELSE {heap[n].key} \cup Node_keys(heap, heap[n].left)
                       \cup Node_keys(heap, heap[n].right)

\* the keys that have an entry in the map
BtMap_keys(heap, map) == Node_keys(heap, map.root)

\* C15: when v1 or v2 (or both) has no entry in bindings, unify_var(v1, v2)
\* returns exactly one state, in which both variables map to the same slot
\* (the other variable's slot, or v1.index when neither had one), slots is
\* unchanged, and get / binds_var of the two variables are equal.
C15_UnifyVarAliases ==
    (/\ call[1] = "unify_var"
     /\ \/ call[2] \notin BtMap_keys(rb, pre.bindings)
        \/ call[3] \notin BtMap_keys(rb, pre.bindings)) =>
        LET v1 == call[2]
            v2 == call[3]
            b1 == BtMap_get(rb, pre.bindings, v1)
            b2 == BtMap_get(rb, pre.bindings, v2)
            slot == IF b1 # <<>> THEN b1[1] ELSE IF b2 # <<>> THEN b2[1] ELSE v1
        IN  /\ ~res.panic
            /\ Len(res.states) = 1
            /\ BtMap_get(rb, res.states[1].bindings, v1) = <<slot>>
            /\ BtMap_get(rb, res.states[1].bindings, v2) = <<slot>>
            /\ res.states[1].slots = pre.slots
            /\ State_get(rb, rs, res.states[1], v1) = State_get(rb, rs, res.states[1], v2)
            /\ State_binds_var(rb, rs, res.states[1], v1)
                  = State_binds_var(rb, rs, res.states[1], v2)

RECURSIVE Node_find(_, _, _)
\* the value of the entry for key among the cells reachable from cell n,
\* wherever it hangs (the entry nearest to n if there are several)
Node_find(heap, n, key) ==
    IF n = 0 THEN <<>>
    ELSE IF heap[n].key = key THEN <<heap[n].val>>
    ELSE IF Node_find(heap, heap[n].left, key) # <<>>
         THEN Node_find(heap, heap[n].left, key)
         ELSE Node_find(heap, heap[n].right, key)

\* the slot entered for var in bindings, and the value entered for that slot
SlotOf(b, st, var) == Node_find(b, st.bindings.root, var)
ValueOf(b, s, st, var) ==
    IF SlotOf(b, st, var) = <<>> THEN <<>>
    ELSE Node_find(s, st.slots.root, SlotOf(b, st, var)[1])

\* C16: when both variables have an entry in bindings, unify_var(v1, v2)
\* returns [state] when both slots hold equal values, [] when they hold
\* different values or exactly one holds a value, and, when neither holds a
\* value, [state] if the two slots are the same slot and [] otherwise; a
\* returned state is observably equal to the input state.
C16_UnifyVarBothSlots ==
    ~res.panic =>
        \A v1 \in InContract(cur), v2 \in InContract(cur) :
            (SlotOf(bnodes, cur, v1) # <<>> /\ SlotOf(bnodes, cur, v2) # <<>>) =>
                LET r == State_unify_var(bnodes, snodes, cur, v1, v2)
                    value1 == ValueOf(bnodes, snodes, cur, v1)
                    value2 == ValueOf(bnodes, snodes, cur, v2)
                    same == IF value1 # <<>> /\ value2 # <<>> THEN value1 = value2
                            ELSE IF value1 # <<>> \/ value2 # <<>> THEN FALSE
                            ELSE SlotOf(bnodes, cur, v1) = SlotOf(bnodes, cur, v2)
                IN  /\ ~r.panic
                    /\ Len(r.states) = IF same THEN 1 ELSE 0
                    /\ \A i \in 1..Len(r.states) :
                          View(r.b, r.s, r.states[i]) = View(bnodes, snodes, cur)

RECURSIVE Concat(_)
\* q[1] ++ q[2] ++ ... for a sequence q of sequences
Concat(q) == IF q = <<>> THEN <<>> ELSE q[1] \o Concat(Tail(q))

\* C17: with A.eval(s) = [s0, ..., sk], conj(A, B).eval(s) is
\* B.eval(s0) ++ ... ++ B.eval(sk) in that order (and aborts exactly when one
\* of these evaluations aborts); B is evaluated against nothing else.
C17_ConjIsFlatMap ==
    (call[1] = "eval" /\ call[2][1] = "conj") =>
        LET ra == Goal_eval(call[2][2], bnodes, snodes, cur)
            parts == [i \in 1..Len(ra.states) |->
                         Goal_eval(call[2][3], ra.b, ra.s, ra.states[i])]
        IN  ~ra.panic =>
                IF \E i \in 1..Len(ra.states) : parts[i].panic
                THEN res.panic
                ELSE /\ ~res.panic
                     /\ ResViews = Concat([i \in 1..Len(ra.states) |-> Views(parts[i])])

\* a conjunction whose first goal returned two states, on which the second
\* goal returned a different number of states
C17_Witness ==
    /\ call[1] = "eval"
    /\ call[2][1] = "conj"
    /\ Len(Goal_eval(call[2][2], bnodes, snodes, cur).states) = 2
    /\ Len(res.states) = 3

\* the number of items of the sequence q that equal x
Count(q, x) == Cardinality({i \in 1..Len(q) : q[i] = x})

\* q1 and q2 hold the same items with the same multiplicities
SameBag(q1, q2) ==
    /\ Len(q1) = Len(q2)
    /\ \A i \in 1..Len(q1) : Count(q1, q1[i]) = Count(q2, q1[i])

\* C18: conj(conj(a, b), c).eval(s) and conj(a, conj(b, c)).eval(s) are equal
\* as sequences; disj(disj(a, b), c).eval(s) and disj(a, disj(b, c)).eval(s)
\* hold the same states with the same multiplicities, those of the three
\* sub-results together.
C18_Associativity ==
    (/\ call[1] = "eval"
     /\ call[2][1] \in {"conj", "disj"}
     /\ call[2][3][1] = call[2][1]) =>
        LET a == call[2][2]
            b == call[2][3][2]
            c == call[2][3][3]
        IN  IF call[2][1] = "conj"
            THEN LET left == Goal_eval(conj(conj(a, b), c), bnodes, snodes, cur)
                 IN  /\ left.panic = res.panic
                     /\ Views(left) = ResViews
            ELSE LET left == Goal_eval(disj(disj(a, b), c), bnodes, snodes, cur)
                     ra == Goal_eval(a, bnodes, snodes, cur)
                     rb1 == Goal_eval(b, bnodes, snodes, cur)
                     rc == Goal_eval(c, bnodes, snodes, cur)
                 IN  /\ left.panic = res.panic
                     /\ SameBag(Views(left), ResViews)
                     /\ ~res.panic =>
                            SameBag(ResViews, Views(ra) \o Views(rb1) \o Views(rc))

\* disj(a, disj(b, c)) returned three states that disj(disj(a, b), c)
\* returns in another order
C18_Witness ==
    /\ call[1] = "eval"
    /\ call[2][1] = "disj"
    /\ call[2][3][1] = "disj"
    /\ Len(res.states) = 3
    /\ Views(Goal_eval(disj(disj(call[2][2], call[2][3][2]), call[2][3][3]),
                       bnodes, snodes, cur)) # ResViews

\* the function f of the goal pred(var, val), applied to the state st
PredHolds(b, s, st, var, val) == State_get(b, s, st, var) = <<val>>

\* C19: pred(f).eval(s) is [s'] with s' observably equal to s when f(s) and
\* [] otherwise, and conj(g, pred(f)).eval(s) is the subsequence of g.eval(s)
\* of the states that satisfy f, in order.
C19_PredFilters ==
    (call[1] = "eval" /\ call[2][1] = "conj" /\ call[2][3][1] = "pred") =>
        LET p == call[2][3]
            rg == Goal_eval(call[2][2], bnodes, snodes, cur)
            f(st) == PredHolds(rg.b, rg.s, st, p[2], p[3])
            kept == SelectSeq(rg.states, f)
        IN  /\ res.panic = rg.panic
            /\ ResViews = [i \in 1..Len(kept) |-> View(rg.b, rg.s, kept[i])]
            /\ \A i \in 1..Len(rg.states) :
                  LET rp == Goal_eval(p, rg.b, rg.s, rg.states[i])
                  IN  /\ ~rp.panic
                      /\ Len(rp.states) = IF f(rg.states[i]) THEN 1 ELSE 0
                      /\ \A j \in 1..Len(rp.states) :
                            View(rp.b, rp.s, rp.states[j])
                                = View(rg.b, rg.s, rg.states[i])

\* conj(g, pred(f)) where g returned two states and only the second
\* satisfies f
C19_Witness ==
    /\ call[1] = "eval"
    /\ call[2][1] = "conj"
    /\ call[2][3][1] = "pred"
    /\ Len(Goal_eval(call[2][2], bnodes, snodes, cur).states) = 2
    /\ Len(res.states) = 1
    /\ State_get(rb, rs, res.states[1], call[2][3][2]) = <<call[2][3][3]>>
    /\ ResViews[1] = Views(Goal_eval(call[2][2], bnodes, snodes, cur))[2]

\* C20: every variable index with an entry in bindings is < next_index;
\* S.make_var() returns (v, S') with v.index = S.next_index,
\* S'.next_index = S.next_index + 1, get / binds_var of every earlier
\* variable as in S, S'.get(v) = None and S'.binds_var(v) = false.
C20_FreshVarsUnbound ==
    /\ \A k \in BtMap_keys(bnodes, cur.bindings) : k < cur.next_index
    /\ call[1] = "make_var" =>
          /\ call[2] = pre.next_index
          /\ cur.next_index = pre.next_index + 1
          /\ \A v \in InContract(pre) : Obs(bnodes, snodes, cur)[v] = pobs[v]
          /\ State_get(bnodes, snodes, cur, call[2]) = <<>>
          /\ ~State_binds_var(bnodes, snodes, cur, call[2])

\* a make_var on a state that holds two bindings and a bound variable
C20_Witness ==
    /\ call[1] = "make_var"
    /\ ~res.panic
    /\ Len(bnodes) >= 2
    /\ \E v \in InContract(pre) : State_binds_var(bnodes, snodes, cur, v)
    /\ cur.next_index = call[2] + 1

\* C21: a binding is permanent.  When get(v) = Some(x) in a state S, then
\* get(v) = Some(x) in the state a successful make_var / unify_val /
\* unify_var call on S returns (hence in every descendant of S), and
\* unify_val(v, y) with y # x returns the empty sequence there.
C21_BindingsPermanent ==
    (call[1] \in {"make_var", "unify_val", "unify_var"}
        /\ ~res.panic /\ res.states # <<>>) =>
        \A v \in InContract(pre) :
            pobs[v][1] # <<>> =>
                /\ State_get(bnodes, snodes, cur, v) = pobs[v][1]
                /\ \A y \in Values \ {pobs[v][1][1]} :
                      LET r == State_unify_val(bnodes, snodes, cur, v, y)
                      IN  ~r.panic /\ r.states = <<>>

\* C22: S.unify_var(a, b) and S.unify_var(b, a) return sequences of the same
\* length, and when both return a state the two states have the same get and
\* binds_var for every variable below next_index.
C22_UnifyVarSymmetric ==
    ~res.panic =>
        \A a \in InContract(cur), b \in InContract(cur) :
            LET r1 == State_unify_var(bnodes, snodes, cur, a, b)
                r2 == State_unify_var(bnodes, snodes, cur, b, a)
            IN  /\ r1.panic = r2.panic
                /\ Len(r1.states) = Len(r2.states)
                /\ \A i \in 1..Len(r1.states) :
                      \A v \in InContract(cur) :
                          Obs(r1.b, r1.s, r1.states[i])[v]
                              = Obs(r2.b, r2.s, r2.states[i])[v]

====
